---- MODULE Spec2Model ----
(***************************************************************************)
(* Model of the boids compute/update pipeline of learn-wgpu (src/boids.rs) *)
(* together with the device queue that executes the command buffers it     *)
(* records.  Scalars of type f32 are fixed-point integers in units of 0.01.*)
(***************************************************************************)
EXTENDS Integers, Sequences, FiniteSets, TLC

VARIABLES
    phase,              \* "none" before create_boids, "live" after it, "panicked" if it aborted
    num_instances,      \* Boids.num_instances
    boid_buffer_index,  \* Boids.boid_buffer_index
    compute_uniforms,   \* Boids.compute_uniforms (host copy of the step uniform block)
    gpu,                \* contents of the device buffers, by buffer name
    pending,            \* command buffers returned by update and not yet submitted
    queue,              \* command buffers submitted to the device queue, oldest first
    running,            \* the command buffer the device is executing, or NoCmd
    ticks,              \* one record per update call, in call order (history)
    last_draw,          \* the draw recorded since the latest update call, or NoDraw (history)
    args,               \* what create_boids was called with and what the asset held (history)
    app,                \* the process of main: "running", "panicked" or "exited"
    state,              \* the State value the event loop owns, by field
    control_flow,       \* *control_flow of the event loop: "Poll" or "Exit"
    window,             \* what the latest MainEventsCleared handler asked of the window
    handled,            \* the event handled last and what its handler did (history)
    pub_state,          \* a State value of src/state.rs (pub struct State), by field
    last_call,          \* the latest call of a method of pub_state and its result (history)
    setup,              \* a running setup_instances: where its iterator stands, what it yielded
    model,              \* the result of Model::load
    render_pass         \* the draws recorded into a render pass by DrawModel

\* The Boids value and the device it records for.
boidsVars ==
    << phase, num_instances, boid_buffer_index, compute_uniforms, gpu, pending,
       queue, running, ticks, last_draw, args >>

\* The application around the event loop.
appVars == << app, state, control_flow, window, handled >>

\* The State of src/state.rs with the CameraController of src/camera.rs.
libVars == << pub_state, last_call >>

modelVars == << model, render_pass >>

vars == << boidsVars, appVars, libVars, setup, modelVars >>

-----------------------------------------------------------------------------
(* Bounds of the model *)

MaxBoids == 2

MaxTicks == 3

(* Inputs *)

\* Values of the delta argument of update, in units of 0.01 s.
Deltas == {0, 1}

\* Streams of rng.gen::<f32>() results in [0, 1), in units of 0.01.
\* Six draws make an agent: the first stream gives an agent at rest and one
\* moving along +x, the second one moving obliquely and one along -x.
RandStreams ==
    << << 50, 50, 50, 50, 50, 50, 50, 50, 50, 70, 50, 50 >>,
       << 0, 99, 25, 75, 10, 60, 50, 0, 99, 30, 50, 50 >> >>

Seeds == 1..Len(RandStreams)

\* The scene_index_count and sample_count arguments of create_boids.
SceneArgs ==
    { [scene_index_count |-> 3, sample_count |-> 0],
      [scene_index_count |-> 7, sample_count |-> 2] }

ObjModelCounts == {0, 1, 2}

SceneVertexData ==
    << << 100, 0, 0, 100 >>, << 0, 100, 0, 100 >>, << 0, 0, 100, 100 >> >>

SamplePointData ==
    << << 100, 0, 0, 100 >>, << 0, -100, 0, 100 >> >>

NoCmd == [tick |-> 0]

NoDraw == [vb1 |-> "none"]

-----------------------------------------------------------------------------
(* Helpers *)

Min(a, b) == IF a < b THEN a ELSE b

RECURSIVE SumTo(_, _)
\* f[1] + ... + f[n]
SumTo(f, n) == IF n = 0 THEN 0 ELSE f[n] + SumTo(f, n - 1)

\* The k-th value drawn from the random stream of a seed.
Rand(seed, k) ==
    RandStreams[seed][((k - 1) % Len(RandStreams[seed])) + 1]

\* Faulty variant: the draw is scaled without being centred.
GenComponent_Uncentred(r) == r * 5

\* (rng.gen::<f32>() - 0.5) * 5.0
GenComponent(r) == (r - 50) * 5

\* The i-th Boid generated by repeat_with: six draws, position first.
GenBoid(seed, i) ==
    LET d(k) == GenComponent(Rand(seed, 6 * (i - 1) + k))
    IN  [pos |-> << d(1), d(2), d(3), 100 >>,
         vel |-> << d(4), d(5), d(6), 0 >>]

\* std::iter::repeat_with(..).take(num_instances).collect()
GenBoids(seed, n) == [i \in 1..n |-> GenBoid(seed, i)]

-----------------------------------------------------------------------------
(* Exact arithmetic for the instance projection.  The magnitude m of a      *)
(* velocity is the square root of the integer mag2, in general irrational;  *)
(* a number a + b*m is the pair << a, b >>, and NaN is carried as a flag.   *)

Surd(a) == << a, 0 >>

SAdd(p, q) == << p[1] + q[1], p[2] + q[2] >>

SSub(p, q) == << p[1] - q[1], p[2] - q[2] >>

\* (a + b*m) * (c + d*m) with m*m = mag2
SMul(p, q, mag2) == << p[1] * q[1] + p[2] * q[2] * mag2, p[1] * q[2] + p[2] * q[1] >>

STwice(p) == << 2 * p[1], 2 * p[2] >>

SScale(k, p) == << k * p[1], k * p[2] >>

\* a + b*m > 0
SPositive(p, mag2) ==
    \/ p[1] > 0 /\ p[2] >= 0
    \/ p[1] >= 0 /\ p[2] > 0
    \/ p[1] > 0 /\ p[2] < 0 /\ p[1] * p[1] > p[2] * p[2] * mag2
    \/ p[1] < 0 /\ p[2] > 0 /\ p[2] * p[2] * mag2 > p[1] * p[1]

Dot3(u, v) == u[1] * v[1] + u[2] * v[2] + u[3] * v[3]

Cross3(u, v) ==
    << u[2] * v[3] - u[3] * v[2], u[3] * v[1] - u[1] * v[3], u[1] * v[2] - u[2] * v[1] >>

\* cgmath::Vector3::unit_x()
UnitX == << 1, 0, 0 >>

\* cgmath::Vector3::unit_y()
UnitY == << 0, 1, 0 >>

\* InnerSpace::normalize: v * (1 / magnitude).  The result is the vector
\* dir / sqrt(mag2); for the zero vector it is 0 * (1 / 0), NaN in every
\* component.
Normalize(v) ==
    [nan  |-> Dot3(v, v) = 0,
     dir  |-> v,
     mag2 |-> Dot3(v, v)]

\* A quaternion s + xi + yj + zk divided by sqrt(norm2); s, x, y, z, norm2
\* are numbers a + b*m.
Quat(s, x, y, z, norm2) == [nan |-> FALSE, s |-> s, x |-> x, y |-> y, z |-> z, norm2 |-> norm2]

\* Quaternion::one()
QuatOne == Quat(Surd(1), Surd(0), Surd(0), Surd(0), Surd(1))

QuatNaN == [nan |-> TRUE, s |-> Surd(0), x |-> Surd(0), y |-> Surd(0), z |-> Surd(0),
            norm2 |-> Surd(0)]

\* Quaternion::from_sv(mag_avg + dot, src.cross(dst)).normalize() for
\* src = unit_x and dst = dir / m: scaled by m > 0, which the normalisation
\* cancels, the quaternion is (m + dir.x) + cross(unit_x, dir).
ArcQuat(axis, dst) ==
    LET s == << dst.dir[1], 1 >>
        x == Surd(axis[1])
        y == Surd(axis[2])
        z == Surd(axis[3])
        sq(p) == SMul(p, p, dst.mag2)
    IN  Quat(s, x, y, z, SAdd(SAdd(sq(s), sq(x)), SAdd(sq(y), sq(z))))

\* Faulty variant: the rotation axis is dst x src, so the arc turns the other way.
FromArc_ReversedAxis(dst) ==
    IF dst.nan THEN QuatNaN
    ELSE IF dst.dir[1] > 0 /\ dst.dir[2] = 0 /\ dst.dir[3] = 0 THEN QuatOne
    ELSE IF dst.dir[1] < 0 /\ dst.dir[2] = 0 /\ dst.dir[3] = 0
         THEN Quat(Surd(0), Surd(0), Surd(0), Surd(-1), Surd(1))
    ELSE ArcQuat(Cross3(dst.dir, UnitX), dst)

\* Quaternion::from_arc(unit_x, dst, None), dst a normalised vector:
\*   dot = mag_avg     (dst = unit_x)   -> Quaternion::one()
\*   dot = -mag_avg    (dst = -unit_x)  -> half a turn about
\*                     normalize(unit_y x unit_x) = (0, 0, -1), because
\*                     unit_x x unit_x is zero
\*   otherwise         -> from_sv(mag_avg + dot, src x dst).normalize()
\* With a NaN dst both comparisons are false and every component is NaN.
FromArc(dst) ==
    IF dst.nan THEN QuatNaN
    ELSE IF dst.dir[1] > 0 /\ dst.dir[2] = 0 /\ dst.dir[3] = 0 THEN QuatOne
    ELSE IF dst.dir[1] < 0 /\ dst.dir[2] = 0 /\ dst.dir[3] = 0
         THEN LET axis == Cross3(UnitY, UnitX)
              IN  Quat(Surd(0), Surd(axis[1]), Surd(axis[2]), Surd(axis[3]), Surd(1))
    ELSE ArcQuat(Cross3(UnitX, dst.dir), dst)

\* Matrix3::from(quaternion), by columns; every entry is divided by den, and
\* mag2 is the square of the m the entries are written in.
RotationMatrix(q, mag2) ==
    LET m(a, b) == SMul(a, b, mag2)
        xx == m(q.x, q.x)
        yy == m(q.y, q.y)
        zz == m(q.z, q.z)
        xy == m(q.x, q.y)
        xz == m(q.x, q.z)
        yz == m(q.y, q.z)
        sx == m(q.s, q.x)
        sy == m(q.s, q.y)
        sz == m(q.s, q.z)
    IN  [nan  |-> q.nan,
         mag2 |-> mag2,
         den  |-> q.norm2,
         c0   |-> << SSub(q.norm2, STwice(SAdd(yy, zz))), STwice(SAdd(xy, sz)),
                    STwice(SSub(xz, sy)) >>,
         c1   |-> << STwice(SSub(xy, sz)), SSub(q.norm2, STwice(SAdd(xx, zz))),
                    STwice(SAdd(yz, sx)) >>,
         c2   |-> << STwice(SAdd(xz, sy)), STwice(SSub(yz, sx)),
                    SSub(q.norm2, STwice(SAdd(xx, yy))) >>]

\* Faulty variant: the translation is left out of the product.
ToRaw_RotationOnly(position, rotation, mag2) ==
    [translation |-> << 0, 0, 0 >>,
     rotation    |-> RotationMatrix(rotation, mag2)]

\* Instance::to_raw: Matrix4::from_translation(position) * Matrix4::from(rotation),
\* kept as its translation column and its rotation block.
ToRaw(position, rotation, mag2) ==
    [translation |-> position,
     rotation    |-> RotationMatrix(rotation, mag2)]

\* Instance { position, rotation: from_arc(unit_x, normalize(vel), None) }.to_raw()
InstanceOf(boid) ==
    LET vel == Normalize(<< boid.vel[1], boid.vel[2], boid.vel[3] >>)
    IN  ToRaw(<< boid.pos[1], boid.pos[2], boid.pos[3] >>, FromArc(vel), vel.mag2)

-----------------------------------------------------------------------------

\* Faulty variant: the second buffer is allocated zeroed instead of filled.
CreateBoidBuffers_SecondZeroed(boids) ==
    [boid_buffer1 |-> boids,
     boid_buffer2 |-> [i \in 1..Len(boids) |->
                          [pos |-> << 0, 0, 0, 0 >>, vel |-> << 0, 0, 0, 0 >>]]]

\* The two agent buffers, both filled from the same boids array.
CreateBoidBuffers(boids) == [boid_buffer1 |-> boids, boid_buffer2 |-> boids]

\* Faulty variant: both bindings of the first group name boid_buffer1.
boid_bind_group1_Aliased == [b0 |-> "boid_buffer1", b1 |-> "boid_buffer1"]

\* Reads binding 0 = boid_buffer1, writes binding 1 = boid_buffer2.
boid_bind_group1 == [b0 |-> "boid_buffer1", b1 |-> "boid_buffer2"]

\* Faulty variant: both bindings of the second group name boid_buffer2.
boid_bind_group2_Aliased == [b0 |-> "boid_buffer2", b1 |-> "boid_buffer2"]

\* Faulty variant: the second group reads the buffer it writes, boid_buffer1.
boid_bind_group2_WritesItsSource == [b0 |-> "boid_buffer1", b1 |-> "boid_buffer1"]

\* Reads binding 0 = boid_buffer2, writes binding 1 = boid_buffer1.
boid_bind_group2 == [b0 |-> "boid_buffer2", b1 |-> "boid_buffer1"]

\* Faulty variant: scene binding 0 is the second agent buffer.
compute_scene_bind_group_AgentsAtBinding0 ==
    [b0 |-> "boid_buffer2", b1 |-> "scene_indices",
     b2 |-> "scene_vertices", b3 |-> "sample_points"]

\* Binding 0 = instance_buffer, 1 = scene_indices, 2 = scene_vertices,
\* 3 = sample_points.
compute_scene_bind_group ==
    [b0 |-> "instance_buffer", b1 |-> "scene_indices",
     b2 |-> "scene_vertices", b3 |-> "sample_points"]

compute_uniform_bind_group == [b0 |-> "compute_uniform_buffer"]

\* The bind group layouts of the compute pipeline, by slot, and the groups
\* created with each layout.
compute_pipline_layout ==
    << {boid_bind_group1, boid_bind_group2},
       {compute_scene_bind_group},
       {compute_uniform_bind_group} >>

\* ComputeUniforms { triangle_count: scene_index_count / 3, sample_cout, delta: 0.0 }
CreateComputeUniforms(scene_index_count, sample_count) ==
    [triangle_count |-> scene_index_count \div 3,
     sample_cout    |-> sample_count,
     delta          |-> 0]

\* The buffers the caller hands to create_boids.
SceneIndices(scene_index_count) == [k \in 1..scene_index_count |-> (k - 1) % 3]

SamplePoints(sample_count) == SubSeq(SamplePointData, 1, sample_count)

-----------------------------------------------------------------------------
(* Boids::create_boids *)

\* Faulty variant: any non-empty asset is accepted.
AssetAccepted_AnyCount(load_ok, n_models) == load_ok /\ n_models >= 1

\* tobj::load_obj(..).unwrap() returns and assert_eq!(obj_models.len(), 1)
\* passes; the loop over the models then returns from its first iteration.
AssetAccepted(load_ok, n_models) == load_ok /\ n_models = 1

CreateBoids ==
    /\ phase = "none"
    /\ UNCHANGED << appVars, libVars, setup, modelVars >>
    /\ \E load_ok \in BOOLEAN, n_models \in ObjModelCounts,
          n \in 0..MaxBoids, seed \in Seeds,
          scene \in SceneArgs :
        IF ~AssetAccepted(load_ok, n_models)
        THEN \* unwrap() of a failed load, assert_eq!(len, 1), or panic!("no model found")
             /\ phase' = "panicked"
             /\ args' = [load_ok |-> load_ok, n_models |-> IF load_ok THEN n_models ELSE 0]
             /\ UNCHANGED << num_instances, boid_buffer_index, compute_uniforms, gpu,
                             pending, queue, running, ticks, last_draw >>
        ELSE LET scene_index_count == scene.scene_index_count
                 sample_count == scene.sample_count
                 boids == GenBoids(seed, n)
                 bufs  == CreateBoidBuffers(boids)
                 uni   == CreateComputeUniforms(scene_index_count, sample_count)
             IN  /\ phase' = "live"
                 /\ num_instances' = n
                 /\ boid_buffer_index' = FALSE
                 /\ compute_uniforms' = uni
                 /\ gpu' = [boid_buffer1 |-> bufs.boid_buffer1,
                            boid_buffer2 |-> bufs.boid_buffer2,
                            instance_buffer |-> [i \in 1..n |-> InstanceOf(boids[i])],
                            compute_uniform_buffer |-> uni,
                            scene_indices |-> SceneIndices(scene_index_count),
                            scene_vertices |-> SceneVertexData,
                            sample_points |-> SamplePoints(sample_count)]
                 /\ args' = [load_ok |-> load_ok, n_models |-> n_models,
                             num_instances |-> n, boids |-> boids,
                             scene_index_count |-> scene_index_count,
                             sample_count |-> sample_count]
                 /\ UNCHANGED << pending, queue, running, ticks, last_draw >>

-----------------------------------------------------------------------------
(* Boids::update *)

\* Faulty variant: the uniform block is rebuilt with only the delta filled in.
UpdateUniforms_Rebuilt(uniforms, delta) ==
    [triangle_count |-> 0, sample_cout |-> 0, delta |-> delta]

\* self.compute_uniforms.delta = delta
UpdateUniforms(uniforms, delta) == [uniforms EXCEPT !.delta = delta]

\* Faulty variant: the flag is ignored when the bind group is chosen.
SelectBindGroup_AlwaysFirst(index) == boid_bind_group1

\* if self.boid_buffer_index { boid_bind_group2 } else { boid_bind_group1 }
SelectBindGroup(index) == IF index THEN boid_bind_group2 ELSE boid_bind_group1

\* Faulty variant: the flag is left for the submission to advance.
ToggleIndex_Deferred(index) == index

\* Faulty variant: the flag is set instead of toggled.
ToggleIndex_Set(index) == TRUE

\* self.boid_buffer_index = !self.boid_buffer_index
ToggleIndex(index) == ~index

\* Faulty variant: the dispatch is recorded before the copy of the uniform block.
RecordCommands_DispatchFirst(staging, group0, grid) ==
    << [op |-> "dispatch", g0 |-> group0, g1 |-> compute_scene_bind_group,
        g2 |-> compute_uniform_bind_group, grid |-> grid],
       [op |-> "copy", data |-> staging, dst |-> "compute_uniform_buffer"] >>

\* Faulty variant: the uniform block is copied into the sample buffer.
RecordCommands_CopyToSamples(staging, group0, grid) ==
    << [op |-> "copy", data |-> staging, dst |-> "sample_points"],
       [op |-> "dispatch", g0 |-> group0, g1 |-> compute_scene_bind_group,
        g2 |-> compute_uniform_bind_group, grid |-> grid] >>

\* Faulty variant: the agent group is bound at slot 1 as well.
RecordCommands_AgentsAtSlot1(staging, group0, grid) ==
    << [op |-> "copy", data |-> staging, dst |-> "compute_uniform_buffer"],
       [op |-> "dispatch", g0 |-> group0, g1 |-> group0,
        g2 |-> compute_uniform_bind_group, grid |-> grid] >>

\* Faulty variant: the compute pass dispatches twice.
RecordCommands_DispatchTwice(staging, group0, grid) ==
    << [op |-> "copy", data |-> staging, dst |-> "compute_uniform_buffer"],
       [op |-> "dispatch", g0 |-> group0, g1 |-> compute_scene_bind_group,
        g2 |-> compute_uniform_bind_group, grid |-> grid],
       [op |-> "dispatch", g0 |-> group0, g1 |-> compute_scene_bind_group,
        g2 |-> compute_uniform_bind_group, grid |-> grid] >>

\* The commands update records, in recording order.
RecordCommands(staging, group0, grid) ==
    << [op |-> "copy", data |-> staging, dst |-> "compute_uniform_buffer"],
       [op |-> "dispatch", g0 |-> group0, g1 |-> compute_scene_bind_group,
        g2 |-> compute_uniform_bind_group, grid |-> grid] >>

\* Where a command of the given kind stands in a command buffer.
OpIndex(cmds, op) == CHOOSE k \in 1..Len(cmds) : cmds[k].op = op

IsDispatch(cmd) == cmd.op = "dispatch"

\* The dispatch commands of a command buffer, in recording order.
Dispatches(cmds) == SelectSeq(cmds, IsDispatch)

Update(delta) ==
    /\ phase = "live"
    /\ UNCHANGED << appVars, libVars, setup, modelVars >>
    /\ Len(ticks) < MaxTicks
    /\ LET uni    == UpdateUniforms(compute_uniforms, delta)
           group0 == SelectBindGroup(boid_buffer_index)
           cmds   == RecordCommands(uni, group0, num_instances)
           t      == Len(ticks) + 1
       IN  /\ compute_uniforms' = uni
           /\ boid_buffer_index' = ToggleIndex(boid_buffer_index)
           /\ pending' = Append(pending, [tick |-> t, cmds |-> cmds])
           /\ ticks' = Append(ticks,
                  [delta |-> delta, group |-> cmds[OpIndex(cmds, "dispatch")].g0,
                   index_before |-> boid_buffer_index,
                   dispatches |-> Dispatches(cmds),
                   status |-> "recorded", read_at_start |-> << >>,
                   seen |-> << >>, written |-> {}, out |-> << >>])
    /\ last_draw' = NoDraw
    /\ UNCHANGED << phase, num_instances, gpu, queue, running, args >>

-----------------------------------------------------------------------------
(* The caller of update: it owns the returned command buffers, and submits *)
(* or drops the oldest one it holds.                                        *)

SetStatus(t, status) == [ticks EXCEPT ![t].status = status]

\* queue.submit(Some(cmd)) with the oldest command buffer update returned
Submit ==
    /\ pending # << >>
    /\ UNCHANGED << appVars, libVars, setup, modelVars >>
    /\ queue' = Append(queue, Head(pending))
    /\ pending' = Tail(pending)
    /\ ticks' = SetStatus(Head(pending).tick, "submitted")
    /\ UNCHANGED << phase, num_instances, boid_buffer_index, compute_uniforms, gpu,
                    running, last_draw, args >>

\* the caller drops a command buffer without submitting it
DropCmd ==
    /\ pending # << >>
    /\ UNCHANGED << appVars, libVars, setup, modelVars >>
    /\ pending' = Tail(pending)
    /\ ticks' = SetStatus(Head(pending).tick, "dropped")
    /\ UNCHANGED << phase, num_instances, boid_buffer_index, compute_uniforms, gpu,
                    queue, running, last_draw, args >>

-----------------------------------------------------------------------------
(* DrawBoids::draw_boids_instanced *)

\* The Boids value a draw call borrows: its buffers, by name, and its fields.
BoidsSelf ==
    [vertex_buffer     |-> "vertex_buffer",
     index_buffer      |-> "index_buffer",
     instance_buffer   |-> "instance_buffer",
     num_instances     |-> num_instances,
     boid_buffer1      |-> "boid_buffer1",
     boid_buffer2      |-> "boid_buffer2",
     boid_buffer_index |-> boid_buffer_index]

\* Faulty variant: the draw takes its instances from the agent buffer last written.
DrawBoidsInstanced_AgentBuffer(boids, instances, uniforms) ==
    [index_buffer |-> boids.index_buffer,
     vb0          |-> boids.vertex_buffer,
     vb1          |-> IF boids.boid_buffer_index
                      THEN boids.boid_buffer2 ELSE boids.boid_buffer1,
     bind0        |-> uniforms,
     instances    |-> instances]

\* The buffers and ranges one call binds in the render pass.
DrawBoidsInstanced(boids, instances, uniforms) ==
    [index_buffer |-> boids.index_buffer,
     vb0          |-> boids.vertex_buffer,
     vb1          |-> boids.instance_buffer,
     bind0        |-> uniforms,
     instances    |-> instances]

\* The caller records the instanced draw of all agents in a render pass;
\* frame is the number of ticks recorded before it.
Draw ==
    /\ phase = "live"
    /\ UNCHANGED << appVars, libVars, setup, modelVars >>
    /\ last_draw' = DrawBoidsInstanced(BoidsSelf, num_instances, "uniform_bind_group")
                        @@ [frame |-> Len(ticks)]
    /\ last_draw' # last_draw
    /\ UNCHANGED << phase, num_instances, boid_buffer_index, compute_uniforms, gpu,
                    pending, queue, running, ticks, args >>

-----------------------------------------------------------------------------
(* The compute kernel (shaders/boids.comp), by the contract the              *)
(* specification gives for it: work unit i reads the agents bound at group 0 *)
(* binding 0, the scene group and the uniform block, and writes agent i of   *)
(* the buffer bound at group 0 binding 1.                                    *)

\* Sum over the agents of the read buffer of position component k.
PosSum(agents, k) == SumTo([j \in 1..Len(agents) |-> agents[j].pos[k]], Len(agents))

\* Sum of component k of the first min(sample_cout, len) sample points.
SampleSum(samples, count, k) ==
    LET m == Min(count, Len(samples))
    IN  SumTo([j \in 1..m |-> samples[j][k]], m)

\* Sum of component k of the first vertex of each of the first triangles.
SceneSum(indices, vertices, count, k) ==
    LET m == Min(count, Len(indices) \div 3)
    IN  SumTo([t \in 1..m |-> vertices[indices[3 * (t - 1) + 1] + 1][k]], m)

\* The agent record work unit i computes from the memory it can read.
KernelAgent(mem, g0, g1, g2, i) ==
    LET agents == mem[g0.b0]
        uni    == mem[g2.b0]
        me     == agents[i]
        steer(k) ==
            (PosSum(agents, k) - Len(agents) * me.pos[k])
            + SampleSum(mem[g1.b3], uni.sample_cout, k)
            - SceneSum(mem[g1.b1], mem[g1.b2], uni.triangle_count, k)
        vel == [k \in 1..4 |->
                   IF k = 4 THEN me.vel[4] ELSE me.vel[k] + uni.delta * steer(k)]
        pos == [k \in 1..4 |->
                   IF k = 4 THEN me.pos[4] ELSE me.pos[k] + uni.delta * vel[k]]
    IN  [pos |-> pos, vel |-> vel]

\* The buffer work unit i writes, and the index it writes at.
KernelTarget(g0, i) == [buffer |-> g0.b1, at |-> i]

-----------------------------------------------------------------------------
(* The device queue: command buffers run one at a time, in submission       *)
(* order, and the commands of one buffer in recording order.                 *)

\* The command buffer the device is working on: the one it has started, or
\* else the oldest one in the queue.
Current ==
    IF running # NoCmd
    THEN running
    ELSE IF queue # << >>
         THEN [tick |-> Head(queue).tick, cmds |-> Head(queue).cmds,
               todo |-> {}, started |-> FALSE, at_start |-> << >>]
         ELSE NoCmd

\* The queue once the device has taken up the current command buffer.
QueueAfterTake == IF running = NoCmd THEN Tail(queue) ELSE queue

\* The device's position once the command at the head has run: on to the
\* next command of the buffer, or idle after the last one.
AfterCommand ==
    IF Len(Current.cmds) = 1
    THEN NoCmd
    ELSE [Current EXCEPT !.cmds = Tail(@), !.started = FALSE, !.todo = {},
                         !.at_start = << >>]

\* encoder.copy_buffer_to_buffer(staging, 0, compute_uniform_buffer, 0, size)
GpuCopy ==
    /\ Current # NoCmd
    /\ UNCHANGED << appVars, libVars, setup, modelVars >>
    /\ Head(Current.cmds).op = "copy"
    /\ gpu' = [gpu EXCEPT ![Head(Current.cmds).dst] = Head(Current.cmds).data]
    /\ running' = AfterCommand
    /\ queue' = QueueAfterTake
    /\ UNCHANGED << phase, num_instances, boid_buffer_index, compute_uniforms,
                    pending, ticks, last_draw, args >>

\* compute_pass.dispatch(grid, 1, 1) starts: grid work units become runnable
GpuDispatchBegin ==
    /\ Current # NoCmd
    /\ UNCHANGED << appVars, libVars, setup, modelVars >>
    /\ Head(Current.cmds).op = "dispatch"
    /\ ~Current.started
    /\ LET d == Head(Current.cmds)
       IN  /\ running' = [Current EXCEPT !.started = TRUE, !.todo = 1..d.grid,
                                         !.at_start = gpu]
           /\ ticks' = [ticks EXCEPT ![Current.tick].status = "running",
                                     ![Current.tick].read_at_start = gpu[d.g0.b0],
                                     ![Current.tick].seen = gpu[d.g2.b0]]
    /\ queue' = QueueAfterTake
    /\ UNCHANGED << phase, num_instances, boid_buffer_index, compute_uniforms, gpu,
                    pending, last_draw, args >>

\* one work unit of the dispatch runs; the units run in any order
GpuInvoke(i) ==
    /\ running # NoCmd
    /\ UNCHANGED << appVars, libVars, setup, modelVars >>
    /\ running.started
    /\ i \in running.todo
    /\ LET d   == Head(running.cmds)
           tgt == KernelTarget(d.g0, i)
       IN  /\ gpu' = [gpu EXCEPT ![tgt.buffer][tgt.at] =
                                      KernelAgent(gpu, d.g0, d.g1, d.g2, i)]
           /\ ticks' = [ticks EXCEPT ![running.tick].written = @ \cup {tgt}]
    /\ running' = [running EXCEPT !.todo = @ \ {i}]
    /\ UNCHANGED << phase, num_instances, boid_buffer_index, compute_uniforms,
                    pending, queue, last_draw, args >>

\* the dispatch completes when every work unit has run
GpuDispatchEnd ==
    /\ running # NoCmd
    /\ UNCHANGED << appVars, libVars, setup, modelVars >>
    /\ running.started
    /\ running.todo = {}
    /\ LET d == Head(running.cmds)
       IN  ticks' = [ticks EXCEPT ![running.tick].status = "complete",
                                  ![running.tick].out = gpu[d.g0.b1]]
    /\ running' = AfterCommand
    /\ UNCHANGED << phase, num_instances, boid_buffer_index, compute_uniforms, gpu,
                    pending, queue, last_draw, args >>

Gpu ==
    \/ GpuCopy
    \/ GpuDispatchBegin
    \/ \E i \in 1..MaxBoids : GpuInvoke(i)
    \/ GpuDispatchEnd

-----------------------------------------------------------------------------
(* The application (src/main.rs): the camera controller, the State value   *)
(* and the handler the event loop runs for every event.                     *)

\* CameraController::new(speed)
CameraControllerNew(speed) ==
    [speed                  |-> speed,
     is_up_pressed          |-> FALSE,
     is_down_pressed        |-> FALSE,
     is_forward_pressed     |-> FALSE,
     is_backward_pressed    |-> FALSE,
     is_left_pressed        |-> FALSE,
     is_right_pressend      |-> FALSE,
     is_mouse_activated     |-> FALSE,
     mouse_can_be_activated |-> TRUE,
     x_delta                |-> 0,
     y_delta                |-> 0]

\* Faulty variant: every key with a keycode is reported handled.
ProcessKey_ConsumesAll(self, keycode, is_pressed) ==
    CASE keycode = "W" -> [self |-> [self EXCEPT !.is_forward_pressed = is_pressed], result |-> TRUE]
      [] keycode = "G" ->
            IF self.mouse_can_be_activated /\ is_pressed
            THEN [self |-> [self EXCEPT !.is_mouse_activated = ~@,
                                        !.mouse_can_be_activated = FALSE],
                  result |-> TRUE]
            ELSE [self |-> [self EXCEPT !.mouse_can_be_activated = ~is_pressed],
                  result |-> TRUE]
      [] OTHER -> [self |-> self, result |-> TRUE]

\* The keyboard arm of process_events, for a key event that carries a keycode.
ProcessKey(self, keycode, is_pressed) ==
    CASE keycode = "Space"  -> [self |-> [self EXCEPT !.is_up_pressed = is_pressed], result |-> TRUE]
      [] keycode = "LShift" -> [self |-> [self EXCEPT !.is_down_pressed = is_pressed], result |-> TRUE]
      [] keycode = "W" -> [self |-> [self EXCEPT !.is_forward_pressed = is_pressed], result |-> TRUE]
      [] keycode = "S" -> [self |-> [self EXCEPT !.is_backward_pressed = is_pressed], result |-> TRUE]
      [] keycode = "A" -> [self |-> [self EXCEPT !.is_left_pressed = is_pressed], result |-> TRUE]
      [] keycode = "D" -> [self |-> [self EXCEPT !.is_right_pressend = is_pressed], result |-> TRUE]
      [] keycode = "G" ->
            IF self.mouse_can_be_activated /\ is_pressed
            THEN [self |-> [self EXCEPT !.is_mouse_activated = ~@,
                                        !.mouse_can_be_activated = FALSE],
                  result |-> TRUE]
            ELSE IF ~is_pressed
            THEN [self |-> [self EXCEPT !.mouse_can_be_activated = TRUE], result |-> TRUE]
            ELSE [self |-> self, result |-> FALSE]
      [] OTHER -> [self |-> self, result |-> FALSE]

\* CameraController::process_events: the controller afterwards and the
\* value returned.
ProcessEvents(self, event) ==
    IF event.kind = "WindowEvent"
    THEN IF event.event.type = "KeyboardInput" /\ event.event.virtual_keycode # "None"
         THEN ProcessKey(self, event.event.virtual_keycode,
                         event.event.state = "Pressed")
         ELSE [self |-> self, result |-> FALSE]
    ELSE IF event.kind = "DeviceEvent"
    THEN IF event.event.type = "MouseMotion" /\ self.is_mouse_activated
         THEN [self |-> [self EXCEPT !.x_delta = @ + event.event.delta[1],
                                     !.y_delta = @ + event.event.delta[2]],
               result |-> TRUE]
         ELSE [self |-> self, result |-> FALSE]
    ELSE [self |-> self, result |-> FALSE]

Sign(pos, neg) == (IF pos THEN 1 ELSE 0) - (IF neg THEN 1 ELSE 0)

\* CameraController::update_camera.  The pose of the camera is kept as the
\* motion the latest call applied to it: the steps of length speed along
\* forward, right and up, and the pitch and yaw in fifths of a degree.
UpdateCamera(self, camera) ==
    [self   |-> [self EXCEPT !.x_delta = 0, !.y_delta = 0],
     camera |-> [camera EXCEPT !.motion =
                    [forward |-> Sign(self.is_forward_pressed, self.is_backward_pressed),
                     right   |-> Sign(self.is_right_pressend, self.is_left_pressed),
                     up      |-> Sign(self.is_up_pressed, self.is_down_pressed),
                     pitch   |-> -self.y_delta,
                     yaw     |-> -self.x_delta]]]

\* Uniforms::update_view_proj: the matrix is a function of the camera.
ViewProj(camera) == [of |-> camera]

NoMotion == [forward |-> 0, right |-> 0, up |-> 0, pitch |-> 0, yaw |-> 0]

\* State::new(window), for a window of the given inner size; aspect is the
\* quotient width / height, kept as the pair.
StateNew(size) ==
    LET sc_desc == [width |-> size.width, height |-> size.height]
        camera  == [aspect |-> << sc_desc.width, sc_desc.height >>, motion |-> NoMotion]
    IN  [size              |-> size,
         sc_desc           |-> sc_desc,
         swap_chain        |-> sc_desc,
         camera            |-> camera,
         camera_controller |-> CameraControllerNew(20),
         uniforms          |-> ViewProj(camera),
         uniform_buffer    |-> ViewProj(camera)]

\* State::resize
StateResize(self, new_size) ==
    LET sc_desc == [self.sc_desc EXCEPT !.width = new_size.width,
                                        !.height = new_size.height]
    IN  [self EXCEPT !.size = new_size, !.sc_desc = sc_desc, !.swap_chain = sc_desc]

\* State::input
StateInput(self, event) ==
    LET r == ProcessEvents(self.camera_controller, event)
    IN  [self |-> [self EXCEPT !.camera_controller = r.self], result |-> r.result]

\* An operation a State method performs, in the log of a handler.
Op(call, op) == [call |-> call, op |-> op]

\* State::update: the State afterwards and what the call did, in order.
\* The command buffer is submitted before update returns.
StateUpdate(self) ==
    LET c == UpdateCamera(self.camera_controller, self.camera)
        uniforms == ViewProj(c.camera)
    IN  [self |-> [self EXCEPT !.camera_controller = c.self,
                               !.camera = c.camera,
                               !.uniforms = uniforms,
                               !.uniform_buffer = uniforms],
         ops  |-> << Op("update", "enter"),
                     Op("update", "create_command_encoder"),
                     Op("update", "copy_buffer_to_buffer"),
                     Op("update", "submit") >>]

\* Faulty variant: a failed acquisition is tried again and the frame recorded.
StateRender_Retry(self, frame) ==
    [panicked |-> FALSE,
     ops      |-> << Op("render", "enter"), Op("render", "get_next_frame") >>
                  \o (IF frame = "ok" THEN << >>
                      ELSE << Op("render", "get_next_frame") >>)
                  \o << Op("render", "create_command_encoder"),
                        Op("render", "begin_render_pass"),
                        Op("render", "draw_indexed"),
                        Op("render", "submit") >>]

\* State::render, frame being the outcome of swap_chain.get_next_frame():
\* expect("Timeout getting texture") panics on an Err before anything else
\* is done.
StateRender(self, frame) ==
    IF frame = "ok"
    THEN [panicked |-> FALSE,
          ops      |-> << Op("render", "enter"), Op("render", "get_next_frame"),
                          Op("render", "create_command_encoder"),
                          Op("render", "begin_render_pass"),
                          Op("render", "draw_indexed"),
                          Op("render", "submit") >>]
    ELSE [panicked |-> TRUE,
          ops      |-> << Op("render", "enter"), Op("render", "get_next_frame") >>]

-----------------------------------------------------------------------------
(* Inputs of the event loop *)

MaxMouse == 2

\* Inner sizes of the window.
Sizes == { [width |-> 800, height |-> 600], [width |-> 300, height |-> 300] }

\* Key codes: W moves, G toggles mouse look, Escape quits, Q is bound to
\* nothing; None is a key event without a virtual keycode.
Keys == {"W", "G", "Escape", "Q", "None"}

ElementStates == {"Pressed", "Released"}

\* Mouse motion deltas (x, y).
MouseDeltas == { << 1, -1 >> }

WindowEvents ==
    { [type |-> "CloseRequested"], [type |-> "Focused"] }
    \cup { [type |-> "KeyboardInput", state |-> st, virtual_keycode |-> k] :
             st \in ElementStates, k \in Keys }
    \cup { [type |-> t, size |-> z] : t \in {"Resized", "ScaleFactorChanged"}, z \in Sizes }

\* Window events addressed to another window.
ForeignWindowEvents ==
    { [type |-> "CloseRequested"],
      [type |-> "KeyboardInput", state |-> "Pressed", virtual_keycode |-> "Escape"] }

DeviceEvents ==
    { [type |-> "MouseMotion", delta |-> d] : d \in MouseDeltas } \cup { [type |-> "Button"] }

\* Outcomes of swap_chain.get_next_frame().
FrameOutcomes == {"ok", "timeout"}

NoState == [size |-> [width |-> 0, height |-> 0]]

NoRequests == [redraw_requests |-> 0, cursor_grab |-> FALSE, cursor_visible |-> TRUE]

NoEvent == [event |-> [kind |-> "none"], ops |-> << >>, frame |-> "none"]

NoCall == [call |-> "none"]

Abs(x) == IF x < 0 THEN -x ELSE x

-----------------------------------------------------------------------------
(* main: the window, the State and the closure given to event_loop.run *)

Main ==
    /\ app = "none"
    /\ \E size \in Sizes : state' = StateNew(size)
    /\ app' = "running"
    /\ UNCHANGED << control_flow, window, handled >>
    /\ UNCHANGED << boidsVars, libVars, setup, modelVars >>

\* The arm of the match for a window event of another window: the guard
\* window_id == window.id() fails and the event falls to the last arm.
HandleForeignWindowEvent ==
    /\ app = "running"
    /\ \E e \in ForeignWindowEvents :
          handled' = [event |-> [kind |-> "WindowEvent", own |-> FALSE, event |-> e],
                      ops |-> << >>, frame |-> "none"]
    /\ UNCHANGED << app, state, control_flow, window >>
    /\ UNCHANGED << boidsVars, libVars, setup, modelVars >>

\* Event::WindowEvent { ref event, window_id } if window_id == window.id()
HandleWindowEvent ==
    /\ app = "running"
    /\ \E e \in WindowEvents :
          LET event_o == [kind |-> "WindowEvent", own |-> TRUE, event |-> e]
              r       == StateInput(state, event_o)
              exits   == \/ e.type = "CloseRequested"
                         \/ /\ e.type = "KeyboardInput"
                            /\ e.state = "Pressed"
                            /\ e.virtual_keycode = "Escape"
              resizes == e.type \in {"Resized", "ScaleFactorChanged"}
          IN  /\ state' = IF ~r.result /\ resizes
                          THEN StateResize(r.self, e.size) ELSE r.self
              /\ control_flow' = IF ~r.result /\ exits THEN "Exit" ELSE control_flow
              /\ handled' = [event |-> event_o,
                             ops   |-> << Op("input", "enter") >>
                                       \o (IF ~r.result /\ resizes
                                           THEN << Op("resize", "enter"),
                                                   Op("resize", "create_swap_chain") >>
                                           ELSE << >>),
                             frame |-> "none"]
    /\ UNCHANGED << app, window >>
    /\ UNCHANGED << boidsVars, libVars, setup, modelVars >>

\* Faulty variant: the frame is rendered before the State is updated.
OnRedrawRequested_RenderFirst(self, frame) ==
    LET r == StateRender(self, frame)
        u == StateUpdate(self)
    IN  IF r.panicked
        THEN [self |-> self, panicked |-> TRUE, ops |-> r.ops]
        ELSE [self |-> u.self, panicked |-> FALSE, ops |-> r.ops \o u.ops]

\* Event::RedrawRequested(_) => { state.update(); state.render(); }
OnRedrawRequested(self, frame) ==
    LET u == StateUpdate(self)
        r == StateRender(u.self, frame)
    IN  [self |-> u.self, panicked |-> r.panicked, ops |-> u.ops \o r.ops]

HandleRedrawRequested ==
    /\ app = "running"
    /\ \E frame \in FrameOutcomes :
          LET h == OnRedrawRequested(state, frame)
          IN  /\ state' = h.self
              /\ app' = IF h.panicked THEN "panicked" ELSE app
              /\ handled' = [event |-> [kind |-> "RedrawRequested"],
                             ops |-> h.ops, frame |-> frame]
    /\ UNCHANGED << control_flow, window >>
    /\ UNCHANGED << boidsVars, libVars, setup, modelVars >>

\* Event::MainEventsCleared
HandleMainEventsCleared ==
    /\ app = "running"
    /\ window' = [redraw_requests |-> 1,
                  cursor_grab     |-> state.camera_controller.is_mouse_activated,
                  cursor_visible  |-> ~state.camera_controller.is_mouse_activated]
    /\ handled' = [event |-> [kind |-> "MainEventsCleared"], ops |-> << >>,
                   frame |-> "none"]
    /\ UNCHANGED << app, state, control_flow >>
    /\ UNCHANGED << boidsVars, libVars, setup, modelVars >>

\* Event::DeviceEvent{..} => { state.input(&event_o); }
HandleDeviceEvent ==
    /\ app = "running"
    /\ \E e \in DeviceEvents :
          LET event_o == [kind |-> "DeviceEvent", event |-> e]
              r       == StateInput(state, event_o)
          IN  /\ Abs(r.self.camera_controller.x_delta) <= MaxMouse
              /\ Abs(r.self.camera_controller.y_delta) <= MaxMouse
              /\ state' = r.self
              /\ handled' = [event |-> event_o, ops |-> << Op("input", "enter") >>,
                             frame |-> "none"]
    /\ UNCHANGED << app, control_flow, window >>
    /\ UNCHANGED << boidsVars, libVars, setup, modelVars >>

\* _ => {} for an event of any other kind
HandleOtherEvent ==
    /\ app = "running"
    /\ handled' = [event |-> [kind |-> "Suspended"], ops |-> << >>, frame |-> "none"]
    /\ UNCHANGED << app, state, control_flow, window >>
    /\ UNCHANGED << boidsVars, libVars, setup, modelVars >>

\* With the control flow set to Exit the loop delivers LoopDestroyed, which
\* falls to the last arm, and the process ends.
LoopDestroyed ==
    /\ app = "running"
    /\ control_flow = "Exit"
    /\ app' = "exited"
    /\ handled' = [event |-> [kind |-> "LoopDestroyed"], ops |-> << >>, frame |-> "none"]
    /\ UNCHANGED << state, control_flow, window >>
    /\ UNCHANGED << boidsVars, libVars, setup, modelVars >>

NextApp ==
    \/ Main
    \/ HandleWindowEvent
    \/ HandleForeignWindowEvent
    \/ HandleRedrawRequested
    \/ HandleMainEventsCleared
    \/ HandleDeviceEvent
    \/ HandleOtherEvent
    \/ LoopDestroyed

-----------------------------------------------------------------------------
(* The State of src/state.rs and the CameraController of src/camera.rs,     *)
(* under any caller of their public methods.                                *)

\* CameraController::new(movement_speed, mouse_speed) of camera.rs
CameraRs_New(movement_speed, mouse_speed) ==
    [movement_speed         |-> movement_speed,
     mouse_speed            |-> mouse_speed,
     is_up_pressed          |-> FALSE,
     is_down_pressed        |-> FALSE,
     is_forward_pressed     |-> FALSE,
     is_backward_pressed    |-> FALSE,
     is_left_pressed        |-> FALSE,
     is_right_pressend      |-> FALSE,
     is_mouse_activated     |-> FALSE,
     mouse_can_be_activated |-> TRUE,
     x_delta                |-> 0,
     y_delta                |-> 0,
     alt                    |-> FALSE]

\* Faulty variant: a G press toggles mouse look whether or not it is armed.
CameraRs_ProcessKey_Repeats(self, keycode, is_pressed) ==
    CASE keycode = "W" -> [self |-> [self EXCEPT !.is_forward_pressed = is_pressed], result |-> TRUE]
      [] keycode = "G" ->
            IF is_pressed
            THEN [self |-> [self EXCEPT !.is_mouse_activated = ~@,
                                        !.mouse_can_be_activated = FALSE],
                  result |-> TRUE]
            ELSE [self |-> [self EXCEPT !.mouse_can_be_activated = TRUE], result |-> TRUE]
      [] OTHER -> [self |-> self, result |-> FALSE]

\* The keyboard arm of process_events of camera.rs, for a key event that
\* carries a keycode.
CameraRs_ProcessKey(self, keycode, is_pressed) ==
    CASE keycode = "Space"  -> [self |-> [self EXCEPT !.is_up_pressed = is_pressed], result |-> TRUE]
      [] keycode = "LShift" -> [self |-> [self EXCEPT !.is_down_pressed = is_pressed], result |-> TRUE]
      [] keycode = "W" -> [self |-> [self EXCEPT !.is_forward_pressed = is_pressed], result |-> TRUE]
      [] keycode = "S" -> [self |-> [self EXCEPT !.is_backward_pressed = is_pressed], result |-> TRUE]
      [] keycode = "A" -> [self |-> [self EXCEPT !.is_left_pressed = is_pressed], result |-> TRUE]
      [] keycode = "D" -> [self |-> [self EXCEPT !.is_right_pressend = is_pressed], result |-> TRUE]
      [] keycode = "G" ->
            IF self.mouse_can_be_activated /\ is_pressed
            THEN [self |-> [self EXCEPT !.is_mouse_activated = ~@,
                                        !.mouse_can_be_activated = FALSE],
                  result |-> TRUE]
            ELSE IF ~is_pressed
            THEN [self |-> [self EXCEPT !.mouse_can_be_activated = TRUE], result |-> TRUE]
            ELSE [self |-> self, result |-> FALSE]
      [] OTHER -> [self |-> self, result |-> FALSE]

\* Faulty variant: the alt flag is stored before it is compared.
CameraRs_ModifiersChanged_StoresFirst(self, alt) ==
    [self |-> [self EXCEPT !.alt = alt], result |-> FALSE]

\* WindowEvent::ModifiersChanged(m), alt being m.alt()
CameraRs_ModifiersChanged(self, alt) ==
    IF self.alt # alt
    THEN [self |-> [self EXCEPT !.alt = alt], result |-> TRUE]
    ELSE [self |-> self, result |-> FALSE]

\* Faulty variant: mouse motion is accumulated whether or not mouse look is on.
CameraRs_MouseMotion_Always(self, delta) ==
    [self |-> [self EXCEPT !.x_delta = @ + delta[1], !.y_delta = @ + delta[2]],
     result |-> self.is_mouse_activated]

\* DeviceEvent::MouseMotion { delta: (x, y) }
CameraRs_MouseMotion(self, delta) ==
    IF self.is_mouse_activated
    THEN [self |-> [self EXCEPT !.x_delta = @ + delta[1], !.y_delta = @ + delta[2]],
          result |-> TRUE]
    ELSE [self |-> self, result |-> FALSE]

\* CameraController::process_events of camera.rs: the controller afterwards
\* and the value returned.
CameraRs_ProcessEvents(self, event) ==
    IF event.kind = "WindowEvent"
    THEN IF event.event.type = "KeyboardInput" /\ event.event.virtual_keycode # "None"
         THEN CameraRs_ProcessKey(self, event.event.virtual_keycode,
                                  event.event.state = "Pressed")
         ELSE IF event.event.type = "ModifiersChanged"
         THEN CameraRs_ModifiersChanged(self, event.event.alt)
         ELSE [self |-> self, result |-> FALSE]
    ELSE IF event.kind = "DeviceEvent"
    THEN IF event.event.type = "MouseMotion"
         THEN CameraRs_MouseMotion(self, event.event.delta)
         ELSE [self |-> self, result |-> FALSE]
    ELSE [self |-> self, result |-> FALSE]

\* CameraController::update_camera of camera.rs.  The pose of the camera is
\* kept as the motion the latest call applied to it: the steps along
\* forward, right and up, their length, and the pitch and yaw in hundredths
\* of a degree; camera.up is not turned.
CameraRs_UpdateCamera(self, camera) ==
    LET speed == IF self.alt THEN self.movement_speed * 5 ELSE self.movement_speed
    IN  [self   |-> [self EXCEPT !.x_delta = 0, !.y_delta = 0],
         camera |-> [camera EXCEPT !.motion =
                        [forward |-> Sign(self.is_forward_pressed, self.is_backward_pressed),
                         right   |-> Sign(self.is_right_pressend, self.is_left_pressed),
                         up      |-> Sign(self.is_up_pressed, self.is_down_pressed),
                         speed   |-> speed,
                         pitch   |-> (-self.y_delta * self.mouse_speed) \div 100,
                         yaw     |-> (-self.x_delta * self.mouse_speed) \div 100]]]

\* State::setup_camera(sc_desc); aspect is the quotient width / height,
\* kept as the pair.
StateRs_SetupCamera(sc_desc) ==
    [camera            |-> [aspect |-> << sc_desc.width, sc_desc.height >>,
                            motion |-> NoMotion @@ [speed |-> 0]],
     camera_controller |-> CameraRs_New(5, 1000)]

\* State::new(window), for a window of the given inner size.
StateRs_New(size) ==
    LET sc_desc == [width |-> size.width, height |-> size.height]
        cam     == StateRs_SetupCamera(sc_desc)
    IN  [size              |-> size,
         sc_desc           |-> sc_desc,
         swap_chain        |-> sc_desc,
         camera            |-> cam.camera,
         camera_controller |-> cam.camera_controller,
         uniforms          |-> ViewProj(cam.camera),
         uniform_buffer    |-> ViewProj(cam.camera)]

\* Faulty variant: the swap chain descriptor keeps its height.
StateRs_Resize_WidthOnly(self, new_size) ==
    LET sc_desc == [self.sc_desc EXCEPT !.width = new_size.width]
    IN  [self EXCEPT !.size = new_size, !.sc_desc = sc_desc, !.swap_chain = sc_desc]

\* State::resize of state.rs
StateRs_Resize(self, new_size) ==
    LET sc_desc == [self.sc_desc EXCEPT !.width = new_size.width,
                                        !.height = new_size.height]
    IN  [self EXCEPT !.size = new_size, !.sc_desc = sc_desc, !.swap_chain = sc_desc]

\* State::input of state.rs
StateRs_Input(self, event) ==
    LET r == CameraRs_ProcessEvents(self.camera_controller, event)
    IN  [self |-> [self EXCEPT !.camera_controller = r.self], result |-> r.result]

\* State::update of state.rs
StateRs_Update(self) ==
    LET c == CameraRs_UpdateCamera(self.camera_controller, self.camera)
        uniforms == ViewProj(c.camera)
    IN  [self EXCEPT !.camera_controller = c.self,
                     !.camera = c.camera,
                     !.uniforms = uniforms,
                     !.uniform_buffer = uniforms]

\* Key codes given to the controller of camera.rs.
LibKeys == {"W", "G", "Q", "None"}

\* The events given to State::input of state.rs.
LibEvents ==
    { [kind |-> "WindowEvent", event |-> e] :
        e \in { [type |-> "KeyboardInput", state |-> st, virtual_keycode |-> k] :
                  st \in ElementStates, k \in LibKeys }
              \cup { [type |-> "ModifiersChanged", alt |-> a] : a \in BOOLEAN }
              \cup { [type |-> "Focused"] } }
    \cup { [kind |-> "DeviceEvent", event |-> e] : e \in DeviceEvents }
    \cup { [kind |-> "RedrawRequested"] }

LibNew ==
    /\ pub_state = NoState
    /\ \E size \in Sizes : pub_state' = StateRs_New(size)
    /\ last_call' = [call |-> "new"]
    /\ UNCHANGED << boidsVars, appVars, setup, modelVars >>

LibInput ==
    /\ pub_state # NoState
    /\ \E event \in LibEvents :
          LET r == StateRs_Input(pub_state, event)
          IN  /\ Abs(r.self.camera_controller.x_delta) <= MaxMouse
              /\ Abs(r.self.camera_controller.y_delta) <= MaxMouse
              /\ pub_state' = r.self
              /\ last_call' = [call |-> "input", event |-> event, result |-> r.result]
    /\ UNCHANGED << boidsVars, appVars, setup, modelVars >>

LibUpdate ==
    /\ pub_state # NoState
    /\ pub_state' = StateRs_Update(pub_state)
    /\ last_call' = [call |-> "update"]
    /\ UNCHANGED << boidsVars, appVars, setup, modelVars >>

LibResize ==
    /\ pub_state # NoState
    /\ \E new_size \in Sizes :
          /\ pub_state' = StateRs_Resize(pub_state, new_size)
          /\ last_call' = [call |-> "resize", new_size |-> new_size]
    /\ UNCHANGED << boidsVars, appVars, setup, modelVars >>

NextState ==
    \/ LibNew
    \/ LibInput
    \/ LibUpdate
    \/ LibResize

-----------------------------------------------------------------------------
(* setup_instances: Instance::setup_instances of src/instance.rs and        *)
(* State::setup_instances of src/state.rs.  Both yield one Instance for     *)
(* every x of every z, in this order; the rotation about an axis by an      *)
(* angle is kept as the axis and the angle in degrees.                      *)

NUM_INSTANCES_PER_ROW == 100

NUM_INSTANCES == NUM_INSTANCES_PER_ROW * NUM_INSTANCES_PER_ROW

SPACE_BETWEEN == 300

\* (NUM_INSTANCES_PER_ROW as f32 * 0.5, 0.0, NUM_INSTANCES_PER_ROW as f32 * 0.5)
INSTANCE_DISPLACEMENT ==
    << (NUM_INSTANCES_PER_ROW * 100) \div 2, 0, (NUM_INSTANCES_PER_ROW * 100) \div 2 >>

\* cgmath::Vector3::unit_z()
UnitZ == << 0, 0, 1 >>

\* The position Instance::setup_instances of instance.rs gives to (x, z).
InstanceRs_Position(x, z) ==
    << (SPACE_BETWEEN * (x * 100 - (NUM_INSTANCES_PER_ROW * 100) \div 2)) \div 100,
       0,
       (SPACE_BETWEEN * (z * 100 - (NUM_INSTANCES_PER_ROW * 100) \div 2)) \div 100 >>

\* The position State::setup_instances of state.rs gives to (x, z).
StateRs_Position(x, z) ==
    << x * 100 - INSTANCE_DISPLACEMENT[1],
       0 - INSTANCE_DISPLACEMENT[2],
       z * 100 - INSTANCE_DISPLACEMENT[3] >>

\* Zero::is_zero of a vector
IsZero(v) == v = << 0, 0, 0 >>

\* Quaternion::from_axis_angle(axis, Deg(deg)); NaN if the axis is.
FromAxisAngle(axis, deg) == [nan |-> axis.nan, axis |-> axis, angle |-> deg]

\* Faulty variant: the position is normalized without the test for zero.
SetupRotation_NoZeroTest(position) == FromAxisAngle(Normalize(position), 45)

\* if position.is_zero() { from_axis_angle(unit_z, Deg(0.0)) }
\* else { from_axis_angle(position.clone().normalize(), Deg(45.0)) }
SetupRotation(position) ==
    IF IsZero(position)
    THEN FromAxisAngle([nan |-> FALSE, dir |-> UnitZ, mag2 |-> 1], 0)
    ELSE FromAxisAngle(Normalize(position), 45)

\* The Instance the closure yields for (x, z).
SetupInstance(fn, x, z) ==
    LET position == IF fn = "Instance::setup_instances"
                    THEN InstanceRs_Position(x, z) ELSE StateRs_Position(x, z)
    IN  [position |-> position, rotation |-> SetupRotation(position)]

SetupFns == {"Instance::setup_instances", "State::setup_instances"}

NoSetup == [fn |-> "none"]

\* The call starts: the iterators stand at z = 0, x = 0 and nothing is collected.
SetupBegin ==
    /\ setup = NoSetup
    /\ \E fn \in SetupFns :
          setup' = [fn |-> fn, z |-> 0, x |-> 0, len |-> 0, done |-> FALSE,
                    last |-> [position |-> << 0, 0, 0 >>,
                              rotation |-> SetupRotation(<< 0, 0, 0 >>)]]
    /\ UNCHANGED << boidsVars, appVars, libVars, modelVars >>

\* collect() takes the next Instance: the inner range runs over x, the
\* outer over z.
SetupYield ==
    /\ setup # NoSetup
    /\ ~setup.done
    /\ setup.z < NUM_INSTANCES_PER_ROW
    /\ setup' = [setup EXCEPT
                    !.last = SetupInstance(setup.fn, setup.x, setup.z),
                    !.len  = @ + 1,
                    !.x    = IF setup.x + 1 = NUM_INSTANCES_PER_ROW THEN 0 ELSE setup.x + 1,
                    !.z    = IF setup.x + 1 = NUM_INSTANCES_PER_ROW THEN @ + 1 ELSE @]
    /\ UNCHANGED << boidsVars, appVars, libVars, modelVars >>

\* The outer range is exhausted: the vector is complete.
SetupDone ==
    /\ setup # NoSetup
    /\ ~setup.done
    /\ setup.z >= NUM_INSTANCES_PER_ROW
    /\ setup' = [setup EXCEPT !.done = TRUE]
    /\ UNCHANGED << boidsVars, appVars, libVars, modelVars >>

NextSetup ==
    \/ SetupBegin
    \/ SetupYield
    \/ SetupDone

-----------------------------------------------------------------------------
(* model.rs: Model::load and the DrawModel methods of a render pass.        *)
(* A buffer or bind group is known by the mesh or material it belongs to;   *)
(* indices count from 0 as in the source.                                   *)

MaxMeshes == 2

MaxMaterials == 2

MaxDrawCalls == 2

\* Option<usize> of tobj's mesh.material_id: None is << >>, Some(k) is << k >>
None == << >>

Some(k) == << k >>

MaterialIds == {None} \cup { Some(k) : k \in 0 .. MaxMaterials - 1 }

\* What tobj::load_obj returns: the models (material id, number of indices)
\* and the number of materials.
ObjModels ==
    UNION { [1 .. n -> [material_id : MaterialIds, indices : {3, 6}]] : n \in 0 .. MaxMeshes }

\* m.mesh.material_id.unwrap_or(0)
UnwrapOr0(material_id) == IF material_id = None THEN 0 ELSE material_id[1]

\* The Mesh pushed for the i-th obj model.
LoadMesh(obj_models, i) ==
    [name         |-> i,
     num_elements |-> obj_models[i].indices,
     material     |-> UnwrapOr0(obj_models[i].material_id)]

\* The Material pushed for the j-th obj material.
LoadMaterial(j) == [name |-> j, bind_group |-> j]

\* Ok((Self { meshes, materials }, command_buffers)): one command buffer of
\* a texture load per material.
ModelLoadOk(obj_models, n_materials) ==
    [result          |-> "Ok",
     meshes          |-> [i \in 1 .. Len(obj_models) |-> LoadMesh(obj_models, i)],
     materials       |-> [j \in 1 .. n_materials |-> LoadMaterial(j)],
     command_buffers |-> n_materials,
     obj_models      |-> obj_models]

NoModel == [result |-> "none"]

NewRenderPass == [draws |-> << >>, panicked |-> FALSE, calls |-> 0, last |-> [call |-> "none"]]

\* draw_mesh_instanced: the buffers of the mesh, the material's bind group
\* at 0, the uniforms at 1, then one indexed draw.
DrawMeshInstanced(mesh, material, instances, uniforms) ==
    [vertex_buffer |-> mesh.name,
     index_buffer  |-> mesh.name,
     bind_group_0  |-> material.bind_group,
     bind_group_1  |-> uniforms,
     indices       |-> << 0, mesh.num_elements >>,
     instances     |-> instances]

\* &model.materials[mesh.material]: the index is in range
InRange(m, mesh) == mesh.material < Len(m.materials)

\* Faulty variant: a mesh whose material index is out of range is skipped.
RECURSIVE DrawMeshes_Checked(_, _, _, _, _)
DrawMeshes_Checked(pass, m, i, instances, uniforms) ==
    IF i > Len(m.meshes) THEN pass
    ELSE IF ~InRange(m, m.meshes[i]) THEN DrawMeshes_Checked(pass, m, i + 1, instances, uniforms)
    ELSE DrawMeshes_Checked(
             [pass EXCEPT !.draws = Append(@, DrawMeshInstanced(m.meshes[i],
                                       m.materials[m.meshes[i].material + 1],
                                       instances, uniforms))],
             m, i + 1, instances, uniforms)

\* The loop of draw_model_instanced from the i-th mesh on: indexing the
\* materials out of range panics, and the loop is left.
RECURSIVE DrawMeshes(_, _, _, _, _)
DrawMeshes(pass, m, i, instances, uniforms) ==
    IF i > Len(m.meshes) THEN pass
    ELSE IF ~InRange(m, m.meshes[i]) THEN [pass EXCEPT !.panicked = TRUE]
    ELSE DrawMeshes(
             [pass EXCEPT !.draws = Append(@, DrawMeshInstanced(m.meshes[i],
                                       m.materials[m.meshes[i].material + 1],
                                       instances, uniforms))],
             m, i + 1, instances, uniforms)

\* draw_model_instanced(model, instances, uniforms)
DrawModelInstancedOp(pass, m, instances, uniforms) ==
    [DrawMeshes(pass, m, 1, instances, uniforms) EXCEPT
        !.calls = @ + 1,
        !.last  = [call |-> "draw_model_instanced", entry |-> "draw_model_instanced",
                   instances |-> instances, uniforms |-> uniforms,
                   start |-> Len(pass.draws)]]

InstanceRanges == { << 0, 1 >>, << 0, 3 >> }

UniformGroups == {"uniforms"}

\* Model::load: tobj::load_obj or a Texture::load fails, or the model is built.
ModelLoad ==
    /\ model = NoModel
    /\ \/ model' = [result |-> "Err"]
       \/ \E obj_models \in ObjModels, n_materials \in 0 .. MaxMaterials :
            model' = ModelLoadOk(obj_models, n_materials)
    /\ UNCHANGED << boidsVars, appVars, libVars, setup, render_pass >>

\* render_pass.draw_model_instanced(&model, instances, &uniforms)
DrawModelInstanced ==
    /\ model # NoModel
    /\ model.result = "Ok"
    /\ ~render_pass.panicked
    /\ render_pass.calls < MaxDrawCalls
    /\ \E instances \in InstanceRanges, uniforms \in UniformGroups :
          render_pass' = DrawModelInstancedOp(render_pass, model, instances, uniforms)
    /\ UNCHANGED << boidsVars, appVars, libVars, setup, model >>

\* render_pass.draw_model(&model, &uniforms): one instance
DrawModel ==
    /\ model # NoModel
    /\ model.result = "Ok"
    /\ ~render_pass.panicked
    /\ render_pass.calls < MaxDrawCalls
    /\ \E uniforms \in UniformGroups :
          render_pass' = [DrawModelInstancedOp(render_pass, model, << 0, 1 >>, uniforms)
                            EXCEPT !.last.entry = "draw_model"]
    /\ UNCHANGED << boidsVars, appVars, libVars, setup, model >>

NextModel ==
    \/ ModelLoad
    \/ DrawModelInstanced
    \/ DrawModel

-----------------------------------------------------------------------------

Init ==
    /\ phase = "none"
    /\ num_instances = 0
    /\ boid_buffer_index = FALSE
    /\ compute_uniforms = CreateComputeUniforms(0, 0)
    /\ gpu = << >>
    /\ pending = << >>
    /\ queue = << >>
    /\ running = NoCmd
    /\ ticks = << >>
    /\ last_draw = NoDraw
    /\ args = << >>
    /\ app = "none"
    /\ state = NoState
    /\ control_flow = "Poll"
    /\ window = NoRequests
    /\ handled = NoEvent
    /\ pub_state = NoState
    /\ last_call = NoCall
    /\ setup = NoSetup
    /\ model = NoModel
    /\ render_pass = NewRenderPass

\* Any caller of the Boids API.
Next ==
    \/ CreateBoids
    \/ \E delta \in Deltas : Update(delta)
    \/ Submit
    \/ DropCmd
    \/ Draw
    \/ Gpu

Spec == Init /\ [][Next]_vars

-----------------------------------------------------------------------------
(* The frame driver the specification describes: per frame one tick, whose  *)
(* command buffer is submitted before the next tick's buffers are touched,  *)
(* and one render submission.                                               *)

\* The frame's draw has been recorded since the latest tick.
FrameRendered == last_draw # NoDraw

\* Faulty variant: the driver starts the next tick without waiting for the submit.
DriverMayUpdate_NoWait == ticks = << >> \/ FrameRendered \/ pending # << >>

\* The driver may start the next tick.
DriverMayUpdate == pending = << >> /\ (ticks = << >> \/ FrameRendered)

DriverUpdate == DriverMayUpdate /\ \E delta \in Deltas : Update(delta)

DriverSubmit == Submit

DriverRender == pending = << >> /\ ticks # << >> /\ ~FrameRendered /\ Draw

NextDriver ==
    \/ CreateBoids
    \/ DriverUpdate
    \/ DriverSubmit
    \/ DriverRender
    \/ Gpu

SpecDriver == Init /\ [][NextDriver]_vars

\* The application of src/main.rs under any sequence of events.
SpecApp == Init /\ [][NextApp]_vars

\* The State of src/state.rs under any sequence of calls.
SpecState == Init /\ [][NextState]_vars

\* One call of setup_instances.
SpecSetup == Init /\ [][NextSetup]_vars

\* A model is loaded and drawn by any caller.
SpecModel == Init /\ [][NextModel]_vars

-----------------------------------------------------------------------------
(* Properties *)

Live == phase = "live"

AgentBuffers == {"boid_buffer1", "boid_buffer2"}

\* The ticks whose dispatch has completed.
Completed == {t \in 1..Len(ticks) : ticks[t].status = "complete"}

\* The ticks whose dispatch has started.
Started == {t \in 1..Len(ticks) : ticks[t].status \in {"running", "complete"}}

\* C1: after n calls of update, whatever the deltas, boid_buffer_index is its
\* initial value false XOR (n mod 2): every call toggles it exactly once.
C1_ParityCountsCalls ==
    Live => (boid_buffer_index <=> (Len(ticks) % 2 = 1))

\* Three calls with different deltas have been made and the flag is set.
C1_Witness ==
    /\ Live
    /\ Len(ticks) = 3
    /\ ticks[1].delta # ticks[2].delta
    /\ boid_buffer_index

\* C2: in every tick, for either value of the flag, the buffers bound at
\* agent group binding 0 (read) and binding 1 (write) are the two different
\* buffers of the pair.
C2_ReadWriteDisjoint ==
    \A t \in 1..Len(ticks) :
        /\ ticks[t].group.b0 # ticks[t].group.b1
        /\ {ticks[t].group.b0, ticks[t].group.b1} = AgentBuffers

\* Ticks have been recorded under both values of the flag.
C2_Witness ==
    \E t, u \in 1..Len(ticks) : ~ticks[t].index_before /\ ticks[u].index_before

C4_OneTickInFlight ==
    \A t \in 1..(Len(ticks) - 1) :
        /\ ticks[t].status \in {"submitted", "running", "complete"}
        /\ (t + 1 \in Started) => (t \in Completed)

\* Tick N+1 has been recorded while tick N is still queued or running.
C4_Witness ==
    \E t \in 1..(Len(ticks) - 1) :
        /\ ticks[t].status \in {"submitted", "running"}
        /\ ticks[t + 1].status \in {"recorded", "submitted"}

\* C5: a simulation step leaves the read buffer of its tick unmodified and
\* changes only the write buffer of its tick, which afterwards holds exactly
\* count agent records, each written by the step.
C5_StepWritesOnlyWriteBuffer ==
    /\ (running # NoCmd /\ running.started) =>
          LET g == Head(running.cmds).g0
          IN  /\ gpu[g.b0] = running.at_start[g.b0]
              /\ \A b \in DOMAIN gpu \ {g.b1} : gpu[b] = running.at_start[b]
    /\ \A t \in Completed :
          /\ Len(ticks[t].out) = num_instances
          /\ ticks[t].written =
                {[buffer |-> ticks[t].group.b1, at |-> i] : i \in 1..num_instances}

\* A step over two agents has completed and changed its write buffer.
C5_Witness ==
    \E t \in Completed :
        /\ num_instances >= 2
        /\ ticks[t].out # ticks[t].read_at_start
        /\ gpu[ticks[t].group.b0] = ticks[t].read_at_start

\* C6 (as amended): the instanced draw takes its per-instance input from
\* instance_buffer, the buffer bound at scene group binding 0 of every
\* dispatch; it is neither buffer of the agent pair, so never the write
\* target of the next tick.
C6_DrawReadsInstanceBuffer ==
    last_draw # NoDraw =>
        /\ last_draw.vb1 = "instance_buffer"
        /\ last_draw.vb1 = compute_scene_bind_group.b0
        /\ last_draw.vb1 \notin AgentBuffers
        /\ last_draw.vb1 # SelectBindGroup(boid_buffer_index).b1

\* A draw has been recorded in a frame whose tick's dispatch has completed.
C6_Witness ==
    /\ last_draw # NoDraw
    /\ last_draw.frame >= 1
    /\ last_draw.frame \in Completed

\* C6 (as claimed): the instanced draw takes its per-instance input from the
\* write buffer of the current tick, the agent buffer most recently written.
C6_DrawReadsWriteBuffer ==
    (last_draw # NoDraw /\ last_draw.frame >= 1) =>
        last_draw.vb1 = ticks[last_draw.frame].group.b1

\* The command buffers update has returned that have not finished running.
Unfinished ==
    {pending[k] : k \in 1..Len(pending)} \cup {queue[k] : k \in 1..Len(queue)}

\* C7: in the command buffer of each update call the copy of the uniform
\* block carrying the delta of this call is recorded before the dispatch, so
\* the dispatch of tick N observes the delta of tick N.
C7_DispatchSeesOwnDelta ==
    /\ \A c \in Unfinished :
          /\ OpIndex(c.cmds, "copy") < OpIndex(c.cmds, "dispatch")
          /\ c.cmds[OpIndex(c.cmds, "copy")].data.delta = ticks[c.tick].delta
    /\ \A t \in Started : ticks[t].seen.delta = ticks[t].delta

\* A dispatch has run with a delta that differs from the one before it.
C7_Witness ==
    \E t \in Completed :
        /\ t >= 2
        /\ t - 1 \in Completed
        /\ ticks[t].delta # ticks[t - 1].delta
        /\ ticks[t].seen.delta = ticks[t].delta

\* No dispatch has started since construction.
FreshlyConstructed == Live /\ Started = {}

\* C8: for every agent count N >= 0, right after construction both agent
\* buffers hold exactly N records and are element-wise identical.
C8_BuffersStartIdentical ==
    FreshlyConstructed =>
        /\ Len(gpu.boid_buffer1) = num_instances
        /\ Len(gpu.boid_buffer2) = num_instances
        /\ \A i \in 1..num_instances : gpu.boid_buffer1[i] = gpu.boid_buffer2[i]
        /\ gpu.boid_buffer1 = args.boids

\* Two different agents have been generated.
C8_Witness ==
    /\ FreshlyConstructed
    /\ num_instances >= 2
    /\ gpu.boid_buffer1[1] # gpu.boid_buffer1[2]
    /\ gpu.boid_buffer2[2] = args.boids[2]

\* What a step computes from frozen inputs: the read buffer and the uniform
\* block as they were when the dispatch started, and the scene buffers.
StepOutput(t) ==
    LET mem == [gpu EXCEPT ![ticks[t].group.b0] = ticks[t].read_at_start,
                           ![compute_uniform_bind_group.b0] = ticks[t].seen]
    IN  [i \in 1..num_instances |->
            KernelAgent(mem, ticks[t].group, compute_scene_bind_group,
                        compute_uniform_bind_group, i)]

\* C9: the write buffer a step produces is a function of the read buffer,
\* the scene and point-cloud data and the delta it started with, whatever
\* the order of the per-agent work units; two steps with the same inputs
\* produce identical write buffers.
C9_StepIsDeterministic ==
    /\ \A t \in Completed : ticks[t].out = StepOutput(t)
    /\ \A t, u \in Completed :
          (ticks[t].read_at_start = ticks[u].read_at_start
              /\ ticks[t].seen = ticks[u].seen)
          => ticks[t].out = ticks[u].out

\* Two steps over the same two agents with the same non-zero delta are done.
C9_Witness ==
    \E t, u \in Completed :
        /\ t # u
        /\ num_instances >= 2
        /\ ticks[t].read_at_start = ticks[u].read_at_start
        /\ ticks[t].seen = ticks[u].seen
        /\ ticks[t].seen.delta # 0
        /\ ticks[t].out # ticks[t].read_at_start
        /\ ticks[t].out = ticks[u].out

\* C10: after any sequence of update calls the uniform block has
\* triangle_count = scene_index_count / 3, sample_count as given to
\* create_boids, and the delta of the latest call (0.0 before the first).
C10_UpdateChangesOnlyDelta ==
    Live =>
        /\ compute_uniforms.triangle_count = args.scene_index_count \div 3
        /\ compute_uniforms.sample_cout = args.sample_count
        /\ compute_uniforms.delta =
              IF ticks = << >> THEN 0 ELSE ticks[Len(ticks)].delta

\* Two calls were made on a scene of seven indices, the latest with delta 0.01.
C10_Witness ==
    /\ Live
    /\ Len(ticks) >= 2
    /\ args.scene_index_count = 7
    /\ compute_uniforms = [triangle_count |-> 2, sample_cout |-> 2, delta |-> 1]

\* C11: every update call records exactly one compute dispatch, with grid
\* (num_instances, 1, 1); num_instances is the count create_boids was given,
\* the length of both agent buffers, and never changes.
C11_OneDispatchPerAgentCount ==
    Live =>
        /\ num_instances = args.num_instances
        /\ Len(gpu.boid_buffer1) = num_instances
        /\ Len(gpu.boid_buffer2) = num_instances
        /\ \A t \in 1..Len(ticks) :
              /\ Len(ticks[t].dispatches) = 1
              /\ ticks[t].dispatches[1].grid = num_instances

\* Three calls have been made over two agents, the first one's step complete.
C11_Witness ==
    /\ Live
    /\ num_instances = 2
    /\ Len(ticks) = 3
    /\ 1 \in Completed
    /\ ticks[3].dispatches[1].grid = 2

\* The velocity of agent i as a vector of three components.
Vel3(boid) == << boid.vel[1], boid.vel[2], boid.vel[3] >>

ZeroVelocity(boid) == Vel3(boid) = << 0, 0, 0 >>

\* The rotation block is the identity matrix.
IsIdentity(r) ==
    /\ ~r.nan
    /\ SPositive(r.den, r.mag2)
    /\ r.c0 = << r.den, Surd(0), Surd(0) >>
    /\ r.c1 = << Surd(0), r.den, Surd(0) >>
    /\ r.c2 = << Surd(0), Surd(0), r.den >>

\* C12: for an agent whose velocity is zero in x, y and z the instance
\* projection yields the identity rotation; no NaN is written to the
\* instance buffer.
C12_ZeroVelocityIsIdentity ==
    Live =>
        \A i \in 1..num_instances :
            /\ ~gpu.instance_buffer[i].rotation.nan
            /\ ZeroVelocity(args.boids[i]) => IsIdentity(gpu.instance_buffer[i].rotation)

\* C13: create_boids returns a Boids only if the asset loaded and held
\* exactly one mesh object; in every other case it panics.
C13_OneMeshOrPanic ==
    /\ Live => (args.load_ok /\ args.n_models = 1)
    /\ phase = "panicked" => (~args.load_ok \/ args.n_models # 1)

\* The asset loaded with two mesh objects and create_boids panicked.
C13_Witness ==
    /\ phase = "panicked"
    /\ args.load_ok
    /\ args.n_models = 2

\* What the State method of the given name did in the handler run last.
OpsOf(call) ==
    LET made(o) == o.call = call /\ o.op # "enter"
        ops == SelectSeq(handled.ops, made)
    IN  [k \in 1..Len(ops) |-> ops[k].op]

\* The calls of State methods the handler run last made, in order.
CallsMade ==
    LET entered(o) == o.op = "enter"
        ops == SelectSeq(handled.ops, entered)
    IN  [k \in 1..Len(ops) |-> ops[k].call]

\* C14: if acquiring the next swapchain frame fails, render aborts at once:
\* the acquisition is tried once, render records and submits nothing for
\* the frame, and the process panics.
C14_FrameTimeoutAborts ==
    handled.frame = "timeout" =>
        /\ OpsOf("render") = << "get_next_frame" >>
        /\ handled.ops[Len(handled.ops)] = Op("render", "get_next_frame")
        /\ app = "panicked"

\* A frame was rendered and the acquisition of the next one timed out.
C14_Witness ==
    /\ handled.frame = "timeout"
    /\ app = "panicked"
    /\ window.redraw_requests = 1
    /\ OpsOf("update") # << >>

\* C15: after construction no update, no step of the simulation and no draw
\* modifies the scene index buffer, the scene vertex buffer or the
\* point-cloud sample buffer.
C15_SceneBuffersReadOnly ==
    Live =>
        /\ gpu.scene_indices = SceneIndices(args.scene_index_count)
        /\ gpu.scene_vertices = SceneVertexData
        /\ gpu.sample_points = SamplePoints(args.sample_count)

\* A step that moved the agents has completed over a scene with samples,
\* and the frame has been drawn.
C15_Witness ==
    /\ Live
    /\ args.sample_count = 2
    /\ last_draw # NoDraw
    /\ \E t \in Completed : ticks[t].out # ticks[t].read_at_start

\* C16: every agent create_boids generates has position w = 1.0, velocity
\* w = 0.0, and each of its three position and three velocity components in
\* [-2.5, 2.5].
C16_GeneratedAgentsInRange ==
    Live =>
        \A i \in 1..num_instances :
            LET boid == args.boids[i]
            IN  /\ boid.pos[4] = 100
                /\ boid.vel[4] = 0
                /\ \A k \in 1..3 :
                      /\ -250 <= boid.pos[k] /\ boid.pos[k] <= 250
                      /\ -250 <= boid.vel[k] /\ boid.vel[k] <= 250

\* Two agents have been generated, one of them from the draw 0.0, which
\* gives the component -2.5.
C16_Witness ==
    /\ FreshlyConstructed
    /\ num_instances = 2
    /\ \E i \in 1..2 : \E k \in 1..3 : gpu.boid_buffer1[i].pos[k] = -250
    /\ \E i \in 1..2 : \E k \in 1..3 : gpu.boid_buffer1[i].vel[k] > 0

\* The rotation block r applied to the integer vector u: the numerators of
\* the result, over r.den.
RotApply(r, u) ==
    [k \in 1..3 |->
        SAdd(SAdd(SScale(u[1], r.c0[k]), SScale(u[2], r.c1[k])), SScale(u[3], r.c2[k]))]

\* The cross product of w, a vector of numbers a + b*m, and the integer vector v.
SurdCross(w, v) ==
    << SSub(SScale(v[3], w[2]), SScale(v[2], w[3])),
       SSub(SScale(v[1], w[3]), SScale(v[3], w[1])),
       SSub(SScale(v[2], w[1]), SScale(v[1], w[2])) >>

SurdDot(w, v) == SAdd(SAdd(SScale(v[1], w[1]), SScale(v[2], w[2])), SScale(v[3], w[3]))

\* The rotation turns the reference axis (1, 0, 0) into the direction of v.
TurnsUnitXOnto(r, v) ==
    LET w == RotApply(r, UnitX)
    IN  /\ ~r.nan
        /\ SPositive(r.den, r.mag2)
        /\ SurdCross(w, v) = << Surd(0), Surd(0), Surd(0) >>
        /\ SPositive(SurdDot(w, v), r.mag2)

\* C17: for every agent with non-zero velocity, the rotation of its instance
\* transform applied to the reference axis (1, 0, 0) is parallel to, and
\* points the same way as, the agent's normalised velocity.
C17_RotationFollowsVelocity ==
    Live =>
        \A i \in 1..num_instances :
            ~ZeroVelocity(args.boids[i]) =>
                TurnsUnitXOnto(gpu.instance_buffer[i].rotation, Vel3(args.boids[i]))

\* Two agents were projected, one moving obliquely and one along -x.
C17_Witness ==
    /\ Live
    /\ num_instances = 2
    /\ \A k \in 1..3 : args.boids[1].vel[k] # 0
    /\ args.boids[2].vel[1] < 0
    /\ args.boids[2].vel[2] = 0
    /\ gpu.instance_buffer[2].rotation.c0[1] = SSub(Surd(0), gpu.instance_buffer[2].rotation.den)

\* The bind group slots of a dispatch command.
Slots(d) == DOMAIN d \ {"op", "grid"}

\* C19: every dispatch binds exactly three resource groups; slot 0 holds the
\* agent pair and is the only slot whose group depends on the parity flag;
\* slot 1 holds the scene group and slot 2 the uniform block, the same
\* objects in every tick.
C19_ThreeGroupsOnlySlot0Flips ==
    /\ Len(compute_pipline_layout) = 3
    /\ \A t \in 1..Len(ticks) :
          \A k \in 1..Len(ticks[t].dispatches) :
              LET d == ticks[t].dispatches[k]
              IN  /\ Slots(d) = {"g0", "g1", "g2"}
                  /\ d.g0 \in compute_pipline_layout[1]
                  /\ d.g0 = (IF ticks[t].index_before
                             THEN boid_bind_group2 ELSE boid_bind_group1)
                  /\ d.g1 = compute_scene_bind_group
                  /\ d.g2 = compute_uniform_bind_group
    /\ \A t, u \in 1..Len(ticks) :
          LET d == ticks[t].dispatches[1]
              e == ticks[u].dispatches[1]
          IN  /\ d.g1 = e.g1
              /\ d.g2 = e.g2
              /\ (d.g0 = e.g0) <=> (ticks[t].index_before = ticks[u].index_before)

\* Three ticks have been recorded, with both values of the flag, and the
\* first two have run.
C19_Witness ==
    /\ Len(ticks) = 3
    /\ ticks[1].dispatches[1].g0 # ticks[2].dispatches[1].g0
    /\ ticks[1].dispatches[1].g0 = ticks[3].dispatches[1].g0
    /\ {1, 2} \subseteq Completed

\* The calls of update and render the handler run last made, in order.
FrameCalls ==
    LET frame_call(c) == c \in {"update", "render"}
    IN  SelectSeq(CallsMade, frame_call)

\* C20: the handler of a RedrawRequested event calls update exactly once and
\* then render exactly once; the handler of any other event calls neither.
C20_OneUpdateThenOneRenderPerRedraw ==
    IF handled.event.kind = "RedrawRequested"
    THEN FrameCalls = << "update", "render" >>
    ELSE FrameCalls = << >>

\* A redraw was handled with mouse look on and the forward key held: the
\* update moved and turned the camera and the frame was rendered.
C20_Witness ==
    /\ handled.event.kind = "RedrawRequested"
    /\ handled.frame = "ok"
    /\ app = "running"
    /\ state.camera.motion.forward = 1
    /\ state.camera.motion.yaw # 0
    /\ OpsOf("render")[Len(OpsOf("render"))] = "submit"

\* The position of an agent as a vector of three components.
Pos3(boid) == << boid.pos[1], boid.pos[2], boid.pos[3] >>

\* C21: the instance buffer create_boids builds holds exactly one transform
\* per agent, in agent order, and the translation of entry i is the position
\* xyz of agent i in the initial agent buffers.
C21_OneTransformPerAgent ==
    FreshlyConstructed =>
        /\ Len(gpu.instance_buffer) = num_instances
        /\ \A i \in 1..num_instances :
              /\ gpu.instance_buffer[i].translation = Pos3(gpu.boid_buffer1[i])
              /\ gpu.instance_buffer[i].translation = Pos3(gpu.boid_buffer2[i])
              /\ gpu.instance_buffer[i].translation = Pos3(args.boids[i])

\* Two agents at different places away from the origin have been projected.
C21_Witness ==
    /\ FreshlyConstructed
    /\ num_instances = 2
    /\ gpu.instance_buffer[1].translation # gpu.instance_buffer[2].translation
    /\ gpu.instance_buffer[1].translation # << 0, 0, 0 >>
    /\ gpu.instance_buffer[2].translation = Pos3(args.boids[2])

\* The ticks before t whose dispatch ran and wrote the buffer tick t targets.
RanBeforeInto(t) ==
    {u \in Completed : u < t /\ ticks[u].group.b1 = ticks[t].group.b1}

\* What the write target of tick t holds if the dispatch of t never runs:
\* the output of the latest earlier dispatch into it, or the initial agents.
StaleTarget(t) ==
    IF RanBeforeInto(t) = {}
    THEN args.boids
    ELSE ticks[CHOOSE u \in RanBeforeInto(t) : \A w \in RanBeforeInto(t) : w <= u].out

\* C22: the parity flag advances when update records a tick, whatever
\* becomes of the command buffer: after a tick that was never submitted the
\* next update still flips the roles, and its dispatch reads the buffer the
\* unsubmitted tick was to write, as the earlier dispatches left it.
C22_FlagAdvancesAtRecordTime ==
    /\ Live => (boid_buffer_index =
                  (IF ticks = << >> THEN FALSE ELSE ~ticks[Len(ticks)].index_before))
    /\ \A t \in 1..(Len(ticks) - 1) :
          /\ ticks[t + 1].index_before = ~ticks[t].index_before
          /\ ticks[t].status = "dropped" =>
                /\ ticks[t + 1].group.b0 = ticks[t].group.b1
                /\ ticks[t].written = {}
                /\ (t + 1 \in Started) => ticks[t + 1].read_at_start = StaleTarget(t)

\* The second of three ticks was dropped; the first moved the agents, and
\* the third has run on the agents as they were at construction.
C22_Witness ==
    /\ Len(ticks) = 3
    /\ ticks[2].status = "dropped"
    /\ {1, 3} \subseteq Completed
    /\ ticks[1].out # args.boids
    /\ ticks[3].read_at_start = args.boids

\* C23: the buffer the agent draw binds as per-instance input is
\* instance_buffer, the one buffer every dispatch binds at scene group
\* binding 0 under either value of the parity flag; it is not one of
\* boid_buffer1 and boid_buffer2 and not a buffer the agent group binds.
C23_InstanceBufferIsShared ==
    /\ \A t \in 1..Len(ticks) :
          \A k \in 1..Len(ticks[t].dispatches) :
              LET d == ticks[t].dispatches[k]
              IN  /\ d.g1.b0 = BoidsSelf.instance_buffer
                  /\ d.g1.b0 \notin {d.g0.b0, d.g0.b1}
                  /\ d.g1.b0 \notin {BoidsSelf.boid_buffer1, BoidsSelf.boid_buffer2}
    /\ last_draw # NoDraw =>
          /\ last_draw.vb1 = BoidsSelf.instance_buffer
          /\ \A t \in 1..Len(ticks) : last_draw.vb1 = ticks[t].dispatches[1].g1.b0

\* The agents were drawn after ticks recorded under both values of the flag.
C23_Witness ==
    /\ last_draw # NoDraw
    /\ last_draw.frame = 2
    /\ ticks[1].index_before # ticks[2].index_before
    /\ ticks[2].dispatches[1].g1.b0 = last_draw.vb1

\* A key event for the controller of camera.rs.
KeyEvent(st, keycode) ==
    [kind |-> "WindowEvent",
     event |-> [type |-> "KeyboardInput", state |-> st, virtual_keycode |-> keycode]]

\* The step is a call of State::input of state.rs with the given event.
InputStep(event) == last_call'.call = "input" /\ last_call'.event = event

\* The step is a call of State::input with a mouse motion.
MotionStep ==
    /\ last_call'.call = "input"
    /\ last_call'.event.kind = "DeviceEvent"
    /\ last_call'.event.event.type = "MouseMotion"

ToggleStep ==
    LET b == pub_state.camera_controller
        a == pub_state'.camera_controller
        press   == InputStep(KeyEvent("Pressed", "G"))
        release == InputStep(KeyEvent("Released", "G"))
    IN  pub_state # NoState =>
            /\ (a.is_mouse_activated # b.is_mouse_activated) =>
                  (press /\ b.mouse_can_be_activated /\ last_call'.result)
            /\ (press /\ b.mouse_can_be_activated) =>
                  /\ a.is_mouse_activated = ~b.is_mouse_activated
                  /\ ~a.mouse_can_be_activated
            /\ (press /\ ~b.mouse_can_be_activated) =>
                  (a = b /\ ~last_call'.result)
            /\ (~b.mouse_can_be_activated /\ ~release) => ~a.mouse_can_be_activated
            /\ release =>
                  (a.mouse_can_be_activated /\ a.is_mouse_activated = b.is_mouse_activated)

\* C24: is_mouse_activated changes only on a G press that arrives while
\* mouse_can_be_activated is true; after such a press further G presses
\* change nothing and return false until a G release re-arms the toggle, so
\* mouse look toggles once per press-release cycle of G.
C24_ToggleOncePerPress == [][ToggleStep]_vars

\* A repeated G press was ignored while mouse look was on.
C24_Witness ==
    /\ last_call.call = "input"
    /\ last_call.event = KeyEvent("Pressed", "G")
    /\ ~last_call.result
    /\ pub_state.camera_controller.is_mouse_activated
    /\ ~pub_state.camera_controller.mouse_can_be_activated

MouseDeltaStep ==
    LET b == pub_state.camera_controller
        a == pub_state'.camera_controller
    IN  pub_state # NoState =>
            IF MotionStep
            THEN IF b.is_mouse_activated
                 THEN /\ a.x_delta = b.x_delta + last_call'.event.event.delta[1]
                      /\ a.y_delta = b.y_delta + last_call'.event.event.delta[2]
                      /\ last_call'.result
                 ELSE /\ a = b
                      /\ ~last_call'.result
            ELSE IF last_call'.call = "update" /\ last_call' # last_call
            THEN /\ a.x_delta = 0
                 /\ a.y_delta = 0
                 /\ pub_state'.camera.motion.yaw = (-b.x_delta * b.mouse_speed) \div 100
                 /\ pub_state'.camera.motion.pitch = (-b.y_delta * b.mouse_speed) \div 100
            ELSE last_call' # last_call =>
                    (a.x_delta = b.x_delta /\ a.y_delta = b.y_delta)

\* C25: a mouse-motion delta is added to x_delta / y_delta only when
\* is_mouse_activated is true, and is otherwise dropped and reported
\* unhandled; every update_camera call applies the accumulated deltas and
\* resets them to 0, so each delta reaches the camera at most once.
C25_MouseDeltaAppliedOnce == [][MouseDeltaStep]_vars

\* An update applied two accumulated motions and reset the deltas.
C25_Witness ==
    /\ last_call.call = "update"
    /\ pub_state.camera.motion.yaw = -20
    /\ pub_state.camera.motion.pitch = 20
    /\ pub_state.camera_controller.x_delta = 0
    /\ pub_state.camera_controller.y_delta = 0

UnhandledStep ==
    (pub_state # NoState /\ last_call'.call = "input" /\ ~last_call'.result)
        => pub_state'.camera_controller = pub_state.camera_controller

\* C26: whenever process_events returns false no field of the controller
\* has changed: unrecognised keys, a G press while the toggle is not armed,
\* mouse motion while mouse look is off and a modifier change that leaves
\* alt as it was all leave the controller as it was.
C26_UnhandledLeavesController == [][UnhandledStep]_vars

\* A modifier change that left alt set was reported unhandled.
C26_Witness ==
    /\ last_call.call = "input"
    /\ last_call.event.kind = "WindowEvent"
    /\ last_call.event.event.type = "ModifiersChanged"
    /\ ~last_call.result
    /\ pub_state.camera_controller.alt
    /\ pub_state.camera_controller.is_forward_pressed

\* The window events that ask the application to quit.
ExitEvents ==
    { [type |-> "CloseRequested"],
      [type |-> "KeyboardInput", state |-> "Pressed", virtual_keycode |-> "Escape"] }

OwnWindowEvent(e) == [kind |-> "WindowEvent", own |-> TRUE, event |-> e]

\* C27: a CloseRequested event or an Escape key press addressed to the
\* application window always sets the control flow to Exit: in no state
\* does the camera controller consume such an event.
C27_ExitEventsAlwaysExit ==
    /\ (handled.event \in {OwnWindowEvent(e) : e \in ExitEvents}) => control_flow = "Exit"
    /\ app = "running" =>
          \A e \in ExitEvents : ~StateInput(state, OwnWindowEvent(e)).result

\* Escape was pressed with mouse look on and the forward key held, and the
\* control flow is Exit.
C27_Witness ==
    /\ handled.event = OwnWindowEvent([type |-> "KeyboardInput", state |-> "Pressed",
                                        virtual_keycode |-> "Escape"])
    /\ control_flow = "Exit"
    /\ state.camera_controller.is_mouse_activated
    /\ state.camera_controller.is_forward_pressed

\* The fields of State that resize assigns.
ResizedFields == {"size", "sc_desc", "swap_chain"}

ResizeStep ==
    pub_state # NoState =>
        /\ pub_state'.size.width = pub_state'.sc_desc.width
        /\ pub_state'.size.height = pub_state'.sc_desc.height
        /\ pub_state'.camera.aspect = pub_state.camera.aspect
        /\ last_call'.call = "resize" =>
              /\ pub_state'.size = last_call'.new_size
              /\ pub_state'.swap_chain = pub_state'.sc_desc
              /\ \A f \in DOMAIN pub_state \ ResizedFields : pub_state'[f] = pub_state[f]

\* C28: State::resize(new_size) changes exactly size, sc_desc.width,
\* sc_desc.height and the swap chain, recreated from the updated descriptor,
\* so that after any sequence of resizes size equals (sc_desc.width,
\* sc_desc.height); every other field is left as it was, and camera.aspect
\* keeps the value computed at construction.
C28_ResizeChangesOnlySize == [][ResizeStep]_vars

\* A window built 800 x 600 was resized to 300 x 300 after the camera had
\* moved; the aspect is still that of 800 x 600.
C28_Witness ==
    /\ last_call.call = "resize"
    /\ pub_state.size = [width |-> 300, height |-> 300]
    /\ pub_state.sc_desc = [width |-> 300, height |-> 300]
    /\ pub_state.camera.aspect = << 800, 600 >>
    /\ pub_state.camera.motion.forward = 1

\* C29: setup_instances produces exactly NUM_INSTANCES_PER_ROW squared, that
\* is NUM_INSTANCES, instances and never normalizes a zero vector: an
\* instance at the zero position gets the identity rotation (angle 0), every
\* other instance a rotation of 45 degrees about its normalized position.
C29_SetupInstancesGuardsZero ==
    setup # NoSetup =>
        /\ setup.len = setup.z * NUM_INSTANCES_PER_ROW + setup.x
        /\ setup.done =>
              /\ setup.len = NUM_INSTANCES
              /\ setup.len = NUM_INSTANCES_PER_ROW * NUM_INSTANCES_PER_ROW
        /\ setup.len > 0 =>
              /\ ~setup.last.rotation.nan
              /\ IF IsZero(setup.last.position)
                 THEN /\ setup.last.rotation.angle = 0
                      /\ setup.last.rotation.axis.dir = UnitZ
                 ELSE /\ setup.last.rotation.angle = 45
                      /\ setup.last.rotation.axis = Normalize(setup.last.position)

\* The instance in the middle of the grid has just been yielded: it is at
\* the zero position and its rotation is the identity.
C29_Witness ==
    /\ setup # NoSetup
    /\ setup.len = 50 * NUM_INSTANCES_PER_ROW + 51
    /\ IsZero(setup.last.position)
    /\ setup.last.rotation.angle = 0

\* The draws the latest call recorded.
LastDraws == SubSeq(render_pass.draws, render_pass.last.start + 1, Len(render_pass.draws))

\* The meshes whose material index is out of range, by position.
BadMeshes == { i \in 1 .. Len(model.meshes) : ~InRange(model, model.meshes[i]) }

\* The number of meshes the loop passes before it stops.
MeshesDrawn ==
    IF BadMeshes = {} THEN Len(model.meshes)
    ELSE (CHOOSE i \in BadMeshes : \A j \in BadMeshes : i <= j) - 1

\* C30: draw_model_instanced issues one draw per mesh, in mesh order, each
\* with the material at index mesh.material, which is 0 for a mesh loaded
\* without a material id; the index is not checked: the call panics at the
\* first mesh whose index is out of range, so a model with a mesh and no
\* material cannot be drawn.
C30_OneDrawPerMeshUncheckedIndex ==
    (model # NoModel /\ model.result = "Ok") =>
        /\ \A i \in 1 .. Len(model.meshes) :
              /\ model.obj_models[i].material_id = None => model.meshes[i].material = 0
              /\ \A k \in 0 .. MaxMaterials - 1 :
                    model.obj_models[i].material_id = Some(k) => model.meshes[i].material = k
        /\ render_pass.last.call # "none" =>
              /\ render_pass.panicked <=> BadMeshes # {}
              /\ Len(LastDraws) = MeshesDrawn
              /\ \A i \in 1 .. MeshesDrawn :
                    /\ LastDraws[i].vertex_buffer = model.meshes[i].name
                    /\ LastDraws[i].index_buffer = model.meshes[i].name
                    /\ LastDraws[i].bind_group_0 =
                          model.materials[model.meshes[i].material + 1].bind_group
                    /\ LastDraws[i].instances = render_pass.last.instances
              /\ (Len(model.meshes) > 0 /\ Len(model.materials) = 0) =>
                    (render_pass.panicked /\ LastDraws = << >>)

\* A model of two meshes without material ids and no material was drawn:
\* the call panicked at index 0 before any draw.
C30_Witness ==
    /\ model # NoModel
    /\ model.result = "Ok"
    /\ Len(model.meshes) = 2
    /\ model.obj_models[1].material_id = None
    /\ model.materials = << >>
    /\ render_pass.last.call = "draw_model_instanced"
    /\ render_pass.panicked
    /\ render_pass.draws = << >>

====
